---------------------------- MODULE Spec2Model ----------------------------
(***************************************************************************)
(* Index lifecycle of the AST parquet indexes: AST.index (src/ast.py),     *)
(* ASTIndexManager.create_index and ASTIndexManager.update_index           *)
(* (src/scripts/parquet_index_manager.py), over a small file system.       *)
(*                                                                         *)
(* A source file is a path with a content version; an index file is a bag  *)
(* of node records (UNION ALL keeps duplicates).  A record carries the     *)
(* content version it was parsed from (gen), so that parse generations     *)
(* can be told apart.  Each SQL statement and each os call of a handler is *)
(* one or two steps of the calling process: COPY ... TO opens its target   *)
(* (the file exists, incomplete) and later completes it.  Over a target    *)
(* that exists already the engine may instead write a temporary of its own *)
(* and replace the target when the statement completes (DuckDB's           *)
(* USE_TMP_FILE); both outcomes are modelled.                              *)
(*                                                                         *)
(* The read-only queries of AST (funcs, find, src, search, classes,        *)
(* complex, stats) and get_index_stats are modelled statement by statement *)
(* over rows that carry the columns they read; SpecQuery runs them over    *)
(* the index directories builds can leave.  Names and terms are sequences  *)
(* of characters, so that LIKE is evaluated as a pattern match.            *)
(*                                                                         *)
(* The semantic code macros (src/scripts/migrate_tests_to_semantic_types)  *)
(* are applied to every 8-bit code in SpecKinds.  The classifier tables    *)
(* are .def files of DEF_TYPE lines: SpecTables writes them with           *)
(* generate_def_file (src/scripts/generate_def_file.py) and loads them     *)
(* with parse_def_file (src/docs/scripts/generate_language_reference.py).  *)
(***************************************************************************)
EXTENDS Integers, Sequences, FiniteSets, Bags, TLC

\* ------------------------------------------------------------- bounds
\* Most saves editors make to the source tree in one behaviour.
MaxEdits == 2
\* Most I/O faults (a failing write, a failing rename) injected in one behaviour.
MaxFaults == 1

\* ------------------------------------------------------------- universe
Files == {"a.py", "b.py", "c.py"}
Langs == {"py"}
Procs == {1, 2}
\* A glob pattern is modelled by the set of paths it can match.
Patterns == {{"a.py"}, {"a.py", "b.py"}, {"b.py", "c.py"}}
\* The *patterns of an AST.index call: none, one, or two that overlap in b.py.
PatternLists ==
    {<<>>} \cup {<<pat>> : pat \in Patterns} \cup {<<{"a.py", "b.py"}, {"b.py", "c.py"}>>}

VARIABLES
    src,      \* source tree: file -> [ver, ok]; ver = 0: the file does not exist
    store,    \* index directory: path -> [state, rows, writers, torn, by]
    pc,       \* per caller: position in the handler it runs
    call,     \* per caller: [op, lang, patterns] of the handler it runs
    buf,      \* per caller: the rows its running COPY statement selected
    fresh,    \* per caller: the read_ast rows its running COPY statement parsed
    result,   \* per caller: what the handler returned or raised
    prior,    \* per caller: the published index file as it was when the call began
    faults    \* I/O faults injected so far

vars == <<src, store, pc, call, buf, fresh, result, prior, faults>>

\* ------------------------------------------------------------- paths
\* index_path = f".index-{lang}.parquet"
IndexPath(l) == <<".index-", l, ".parquet">>

\* The scratch path is the published path itself: the merge is written in place.
TempPathInPlace(path) == path

\* temp_path = f"{index_path}.tmp"
TempPath(path) == path \o <<".tmp">>

Paths == {IndexPath(l) : l \in Langs} \cup {TempPath(IndexPath(l)) : l \in Langs}

\* A file of the index directory.  writers: the callers that hold it open for
\* writing; torn: two of them wrote it at once, so it holds neither's rows;
\* by: the caller whose COPY completed it.
Absent == [state |-> "absent", rows |-> EmptyBag, writers |-> {}, torn |-> FALSE, by |-> 0]

\* COPY ... TO creates or truncates its target and holds it open while it writes.
Truncated(file, p) ==
    [state |-> "partial", rows |-> EmptyBag, writers |-> file.writers \cup {p},
     torn |-> file.writers \ {p} # {}, by |-> 0]

\* The statement is through: the file holds its rows, unless it was torn.
Closed(file, p, rows) ==
    IF file.torn
    THEN [file EXCEPT !.writers = @ \ {p}]
    ELSE [state |-> "complete", rows |-> rows, writers |-> file.writers \ {p},
          torn |-> FALSE, by |-> p]

\* The statement is through, having staged its rows: the target is replaced.
Replaced(p, rows) ==
    [state |-> "complete", rows |-> rows, writers |-> {}, torn |-> FALSE, by |-> p]

\* The statement failed while writing: the file stays as far as it got.
Dropped(file, p) == [file EXCEPT !.writers = @ \ {p}]

\* read_parquet(path) needs a complete parquet file.
Readable(path) == store[path].state = "complete"

\* The file caller p holds open, wherever a rename has moved it.
OpenPaths(p) == {path \in Paths : p \in store[path].writers}

\* ------------------------------------------------------------- parser
\* Node ids are file-scoped: 1..NodeCount; the tree changes size with the content.
NodeCount(v) == v + 1

\* The records read_ast yields for one file at content version v: a root
\* (parent_id 0 stands for NULL) spanning the file, and one child per line
\* after the first. The parse satisfies containment and the aggregate rule.
ParseFile(f, v) ==
    {[file_path |-> f, node_id |-> n, parent_id |-> IF n = 1 THEN 0 ELSE 1, gen |-> v,
      start_line |-> IF n = 1 THEN 1 ELSE n,
      end_line |-> IF n = 1 THEN NodeCount(v) ELSE n,
      descendant_count |-> IF n = 1 THEN NodeCount(v) - 1 ELSE 0]
        : n \in 1..NodeCount(v)}

\* The files a glob pattern matches now.
Matched(pat) == {f \in pat : src[f].ver > 0}

\* read_ast(pattern) raises when it cannot parse a matched file.
ParseFails(pat) == \E f \in Matched(pat) : ~src[f].ok

\* read_ast('{pattern}', peek_mode := 'none')
ReadAst(pat) == SetToBag(UNION {ParseFile(f, src[f].ver) : f \in Matched(pat)})

\* ------------------------------------------------------------- SQL
FilePaths(rows) == {r.file_path : r \in BagToSet(rows)}

RECURSIVE UnionAll(_)
\* " UNION ALL ".join(queries): rows of all queries, duplicates kept.
UnionAll(bags) ==
    IF bags = <<>> THEN EmptyBag ELSE Head(bags) (+) UnionAll(Tail(bags))

\* SQL NULL in the name column.
NullName == <<"NULL">>

\* The rows of a table that are in keep, as often as the table holds them.
Where(rows, keep) == [r \in BagToSet(rows) \cap keep |-> rows[r]]

\* COUNT(file_path) in place of COUNT(DISTINCT file_path).
IndexedFilesPerRow(rows) == BagCardinality(rows)

\* COUNT(DISTINCT file_path)
IndexedFiles(rows) == Cardinality(FilePaths(rows))

\* COUNT(name) in place of COUNT(*): rows with a NULL name are not counted.
TotalNodesNamed(rows) ==
    BagCardinality(Where(rows, {r \in BagToSet(rows) : r.name # NullName}))

\* COUNT(*)
TotalNodes(rows) == BagCardinality(rows)

\* ------------------------------------------------------------- results
NoCall == [op |-> "none", lang |-> "", patterns |-> <<>>]
NoResult == [status |-> "none", new_files |-> 0, error |-> ""]
Raised(e) == [status |-> "raised", new_files |-> 0, error |-> e]
Returned(s, n) == [status |-> s, new_files |-> n, error |-> ""]

\* What create_index returns: the counts of get_index_stats that do not depend
\* on the node types.
Created(rows) ==
    [status |-> "created", new_files |-> 0, error |-> "",
     indexed_files |-> IndexedFiles(rows), total_nodes |-> TotalNodes(rows)]

\* The source tree the first call finds: a.py and b.py exist, c.py does not yet.
InitVer(f) == IF f = "c.py" THEN 0 ELSE 1

Init ==
    /\ src = [f \in Files |-> [ver |-> InitVer(f), ok |-> TRUE]]
    /\ store = [path \in Paths |-> Absent]
    /\ pc = [p \in Procs |-> "idle"]
    /\ call = [p \in Procs |-> NoCall]
    /\ buf = [p \in Procs |-> EmptyBag]
    /\ fresh = [p \in Procs |-> EmptyBag]
    /\ result = [p \in Procs |-> NoResult]
    /\ prior = [p \in Procs |-> Absent]
    /\ faults = 0

\* ------------------------------------------------------------- environment
RECURSIVE Edits(_)
\* The saves made so far to the files of S.
Edits(S) ==
    IF S = {} THEN 0
    ELSE LET f == CHOOSE x \in S : TRUE IN (src[f].ver - InitVer(f)) + Edits(S \ {f})

\* An editor creates or saves a file: new content, which the parser may or may
\* not accept.
EditFile(f) ==
    /\ Edits(Files) < MaxEdits
    /\ \E good \in BOOLEAN : src' = [src EXCEPT ![f] = [ver |-> src[f].ver + 1, ok |-> good]]
    /\ UNCHANGED <<store, pc, call, buf, fresh, result, prior, faults>>

\* ------------------------------------------------------------- handlers
\* A call begins: its arguments, and the published index as the call finds it.
Begin(p, op, l, ps) ==
    /\ call' = [call EXCEPT ![p] = [op |-> op, lang |-> l, patterns |-> ps]]
    /\ prior' = [prior EXCEPT ![p] = store[IndexPath(l)]]

\* AST.index without its "if not patterns" check.
IndexUnchecked(p, l, ps) ==
    /\ pc[p] = "idle"
    /\ Begin(p, "index", l, ps)
    /\ pc' = [pc EXCEPT ![p] = "copy"]
    /\ result' = [result EXCEPT ![p] = NoResult]
    /\ UNCHANGED <<src, store, buf, fresh, faults>>

\* AST.index(lang, *patterns), up to the COPY statement.
Index(p, l, ps) ==
    /\ pc[p] = "idle"
    /\ Begin(p, "index", l, ps)
    /\ IF ps = <<>>
       THEN /\ pc' = [pc EXCEPT ![p] = "failed"]
            /\ result' = [result EXCEPT ![p] = Raised("ValueError")]
       ELSE /\ pc' = [pc EXCEPT ![p] = "copy"]
            /\ result' = [result EXCEPT ![p] = NoResult]
    /\ UNCHANGED <<src, store, buf, fresh, faults>>

\* ASTIndexManager.create_index(file_pattern, file_type), up to the COPY statement.
CreateIndex(p, l, pat) ==
    /\ pc[p] = "idle"
    /\ Begin(p, "create_index", l, <<pat>>)
    /\ pc' = [pc EXCEPT ![p] = "copy"]
    /\ result' = [result EXCEPT ![p] = NoResult]
    /\ UNCHANGED <<src, store, buf, fresh, faults>>

\* The count without its NOT IN filter: every matched file counts as new.
NewFileCountAll(existing, parsed) == Cardinality(FilePaths(parsed))

\* SELECT COUNT(*) FROM (SELECT DISTINCT file_path FROM read_ast(pattern)
\*                       WHERE file_path NOT IN (SELECT file_path FROM existing))
NewFileCount(existing, parsed) == Cardinality(FilePaths(parsed) \ FilePaths(existing))

\* ASTIndexManager.update_index(file_pattern, index_path), up to the COPY statement.
UpdateIndex(p, l, pat) ==
    /\ pc[p] = "idle"
    /\ Begin(p, "update_index", l, <<pat>>)
    /\ IF ~Readable(IndexPath(l))
       THEN /\ pc' = [pc EXCEPT ![p] = "failed"]
            /\ result' = [result EXCEPT ![p] = Raised("IOException")]
       ELSE IF ParseFails(pat)
       THEN /\ pc' = [pc EXCEPT ![p] = "failed"]
            /\ result' = [result EXCEPT ![p] = Raised("ParseFailure")]
       ELSE LET new_files == NewFileCount(store[IndexPath(l)].rows, ReadAst(pat)) IN
            IF new_files = 0
            THEN /\ pc' = [pc EXCEPT ![p] = "done"]
                 /\ result' = [result EXCEPT ![p] = Returned("no_updates", 0)]
            ELSE /\ pc' = [pc EXCEPT ![p] = "copy"]
                 /\ result' = [result EXCEPT ![p] = Returned("pending", new_files)]
    /\ UNCHANGED <<src, store, buf, fresh, faults>>

\* The merge without its NOT IN filter: the fresh rows are appended.
MergedKeepAll(existing, parsed) == existing (+) parsed

\* The merge as a row-level insert of the new files only: rows of files already
\* indexed stay as they are.
MergedAppendNew(existing, parsed) ==
    LET added == {r \in BagToSet(parsed) : r.file_path \notin FilePaths(existing)}
    IN  existing (+) [r \in added |-> parsed[r]]

\* The merge as a rebuild: the index becomes what the pattern matches now.
MergedParsedOnly(existing, parsed) == parsed

\* SELECT * FROM read_parquet(index_path) WHERE file_path NOT IN
\*   (SELECT DISTINCT file_path FROM read_ast(pattern))
\* UNION ALL SELECT * FROM read_ast(pattern)
Merged(existing, parsed) ==
    LET kept == {r \in BagToSet(existing) : r.file_path \notin FilePaths(parsed)}
    IN  [r \in kept |-> existing[r]] (+) parsed

\* The path the handler's COPY statement writes.
Target(p) ==
    IF call[p].op = "update_index"
    THEN TempPath(IndexPath(call[p].lang))
    ELSE IndexPath(call[p].lang)

\* The rows read_ast yields for the statement's pattern(s).
Parsed(p) ==
    UnionAll([i \in 1..Len(call[p].patterns) |-> ReadAst(call[p].patterns[i])])

\* The rows the handler's COPY statement selects.
Query(p) ==
    IF call[p].op = "update_index"
    THEN Merged(store[IndexPath(call[p].lang)].rows, Parsed(p))
    ELSE Parsed(p)

\* The error the statement's sources raise, "" when they can be read.
QueryError(p) ==
    IF call[p].op = "update_index" /\ ~Readable(IndexPath(call[p].lang))
    THEN "IOException"
    ELSE IF \E i \in 1..Len(call[p].patterns) : ParseFails(call[p].patterns[i])
    THEN "ParseFailure"
    ELSE ""

\* COPY (...) TO target: the statement starts; the target exists, incomplete.
CopyOpen(p) ==
    /\ pc[p] = "copy"
    /\ QueryError(p) = ""
    /\ store' = [store EXCEPT ![Target(p)] = Truncated(@, p)]
    /\ buf' = [buf EXCEPT ![p] = Query(p)]
    /\ fresh' = [fresh EXCEPT ![p] = Parsed(p)]
    /\ pc' = [pc EXCEPT ![p] = "writing"]
    /\ UNCHANGED <<src, call, result, prior, faults>>

\* COPY (...) TO a target that exists: the statement starts and stages its rows
\* in a temporary of the engine; the target stays as it is until the end.
CopyStage(p) ==
    /\ pc[p] = "copy"
    /\ QueryError(p) = ""
    /\ store[Target(p)].state # "absent"
    /\ buf' = [buf EXCEPT ![p] = Query(p)]
    /\ fresh' = [fresh EXCEPT ![p] = Parsed(p)]
    /\ pc' = [pc EXCEPT ![p] = "staging"]
    /\ UNCHANGED <<src, store, call, result, prior, faults>>

\* COPY (...) TO target raises on its sources; the target may have been created
\* already, and no handler removes it.
CopyAbort(p) ==
    /\ pc[p] = "copy"
    /\ QueryError(p) # ""
    /\ \E opened \in BOOLEAN :
          store' = IF opened
                   THEN [store EXCEPT ![Target(p)] = Dropped(Truncated(@, p), p)]
                   ELSE store
    /\ pc' = [pc EXCEPT ![p] = "failed"]
    /\ result' = [result EXCEPT ![p] = Raised(QueryError(p))]
    /\ UNCHANGED <<src, call, buf, fresh, prior, faults>>

\* The position after the COPY statement of each handler.
AfterCopy(op) ==
    CASE op = "update_index" -> "rename"
      [] op = "create_index" -> "stats"
      [] OTHER -> "done"

\* COPY (...) TO target: the statement completes and the file is closed.
CopyFinish(p) ==
    /\ pc[p] \in {"writing", "staging"}
    /\ store' = IF pc[p] = "staging"
                THEN [store EXCEPT ![Target(p)] = Replaced(p, buf[p])]
                ELSE [path \in Paths |->
                        IF path \in OpenPaths(p)
                        THEN Closed(store[path], p, buf[p])
                        ELSE store[path]]
    /\ pc' = [pc EXCEPT ![p] = AfterCopy(call[p].op)]
    /\ result' = [result EXCEPT ![p] =
                    IF call[p].op = "index" THEN Returned("created", 0) ELSE @]
    /\ UNCHANGED <<src, call, buf, fresh, prior, faults>>

\* COPY (...) TO target raises while writing (the disk is full, say).
CopyFail(p) ==
    /\ faults < MaxFaults
    /\ faults' = faults + 1
    /\ pc[p] \in {"writing", "staging"}
    /\ store' = [path \in Paths |->
                    IF path \in OpenPaths(p)
                    THEN Dropped(store[path], p)
                    ELSE store[path]]
    /\ pc' = [pc EXCEPT ![p] = "failed"]
    /\ result' = [result EXCEPT ![p] = Raised("IOException")]
    /\ UNCHANGED <<src, call, buf, fresh, prior>>

\* os.rename(temp_path, index_path)
Rename(p) ==
    /\ pc[p] = "rename"
    /\ LET index_path == IndexPath(call[p].lang)
           temp_path == TempPath(index_path)
       IN  IF store[temp_path].state = "absent"
           THEN /\ pc' = [pc EXCEPT ![p] = "failed"]
                /\ result' = [result EXCEPT ![p] = Raised("FileNotFoundError")]
                /\ store' = store
           ELSE /\ store' = [store EXCEPT ![index_path] = store[temp_path],
                                          ![temp_path] = Absent]
                /\ pc' = [pc EXCEPT ![p] = "done"]
                /\ result' = [result EXCEPT ![p] = Returned("updated", @.new_files)]
    /\ UNCHANGED <<src, call, buf, fresh, prior, faults>>

\* os.rename raises OSError (index_path is not writable, say).
RenameFail(p) ==
    /\ faults < MaxFaults
    /\ faults' = faults + 1
    /\ pc[p] = "rename"
    /\ pc' = [pc EXCEPT ![p] = "failed"]
    /\ result' = [result EXCEPT ![p] = Raised("OSError")]
    /\ UNCHANGED <<src, store, call, buf, fresh, prior>>

\* stats = self.get_index_stats(index_path), the end of create_index.
Stats(p) ==
    /\ pc[p] = "stats"
    /\ IF Readable(IndexPath(call[p].lang))
       THEN /\ pc' = [pc EXCEPT ![p] = "done"]
            /\ result' = [result EXCEPT ![p] = Created(store[IndexPath(call[p].lang)].rows)]
       ELSE /\ pc' = [pc EXCEPT ![p] = "failed"]
            /\ result' = [result EXCEPT ![p] = Raised("IOException")]
    /\ UNCHANGED <<src, store, call, buf, fresh, prior, faults>>

\* The handler has returned or raised; the caller is free for its next call.
Return(p) ==
    /\ pc[p] \in {"done", "failed"}
    /\ pc' = [pc EXCEPT ![p] = "idle"]
    /\ call' = [call EXCEPT ![p] = NoCall]
    /\ buf' = [buf EXCEPT ![p] = EmptyBag]
    /\ fresh' = [fresh EXCEPT ![p] = EmptyBag]
    /\ result' = [result EXCEPT ![p] = NoResult]
    /\ prior' = [prior EXCEPT ![p] = Absent]
    /\ UNCHANGED <<src, store, faults>>

\* ------------------------------------------------------------- specifications
Env == \E f \in Files : EditFile(f)

Step(p) ==
    \/ \E l \in Langs, ps \in PatternLists : Index(p, l, ps)
    \/ \E l \in Langs, pat \in Patterns : CreateIndex(p, l, pat)
    \/ \E l \in Langs, pat \in Patterns : UpdateIndex(p, l, pat)
    \/ CopyOpen(p)
    \/ CopyStage(p)
    \/ CopyAbort(p)
    \/ CopyFinish(p)
    \/ CopyFail(p)
    \/ Rename(p)
    \/ RenameFail(p)
    \/ Stats(p)
    \/ Return(p)

\* The single synchronous caller: one handler runs at a time, to its end, while
\* editors change the source tree.
Next == Env \/ Step(1)

Spec == Init /\ [][Next]_vars

\* Uncoordinated callers: the statements of their handlers interleave.
Race(p) ==
    \/ \E l \in Langs, ps \in PatternLists : Index(p, l, ps)
    \/ \E l \in Langs, pat \in Patterns : UpdateIndex(p, l, pat)
    \/ CopyOpen(p)
    \/ CopyStage(p)
    \/ CopyAbort(p)
    \/ CopyFinish(p)
    \/ Rename(p)
    \/ Return(p)

NextConcurrent == \E p \in Procs : Race(p)

SpecConcurrent == Init /\ [][NextConcurrent]_vars

\* ------------------------------------------------------------- properties
Published(p) == IndexPath(call[p].lang)
Scratch(p) == TempPath(IndexPath(call[p].lang))

\* The step in which update_index's os.rename succeeds.
Renames(p) == pc[p] = "rename" /\ pc'[p] = "done"

\* The step in which a caller enters handler op.
Calls(p, op) == pc[p] = "idle" /\ call'[p].op = op

RowsOf(rows, f) == {r \in BagToSet(rows) : r.file_path = f}

\* No two rows share (file_path, node_id).
UniqueKeys(rows) ==
    \A r1 \in BagToSet(rows) :
        /\ rows[r1] = 1
        /\ \A r2 \in BagToSet(rows) :
              (r1.file_path = r2.file_path /\ r1.node_id = r2.node_id) => r1 = r2

\* C1: when update_index proceeds, the index it publishes holds every prior row
\* of the files the pattern does not match, as often as before, and for every
\* matched file exactly the rows its COPY statement parsed; no prior row of a
\* matched file remains.
C1_UpdateReplacesMatchedFiles ==
    [][\A p \in Procs :
          Renames(p) =>
            LET old == store[Published(p)].rows
                new == store'[Published(p)]
            IN  /\ new.state = "complete"
                /\ \A r \in BagToSet(old) \cup BagToSet(new.rows) \cup BagToSet(fresh[p]) :
                      CopiesIn(r, new.rows) =
                          IF r.file_path \in FilePaths(fresh[p])
                          THEN CopiesIn(r, fresh[p])
                          ELSE CopiesIn(r, old)]_vars

\* An update has returned "updated" having kept an untouched file, re-parsed an
\* indexed file at a newer version and added a new file.
C1_Witness ==
    \E p \in Procs :
        /\ pc[p] = "done" /\ call[p].op = "update_index"
        /\ result[p].status = "updated"
        /\ store[Published(p)].state = "complete"
        /\ \E f, g, h \in Files :
              /\ f \in FilePaths(prior[p].rows) \ FilePaths(fresh[p])
              /\ RowsOf(store[Published(p)].rows, f) = RowsOf(prior[p].rows, f)
              /\ g \in FilePaths(prior[p].rows) \cap FilePaths(fresh[p])
              /\ RowsOf(prior[p].rows, g) # RowsOf(fresh[p], g)
              /\ RowsOf(store[Published(p)].rows, g) = RowsOf(fresh[p], g)
              /\ h \in FilePaths(fresh[p]) \ FilePaths(prior[p].rows)
              /\ RowsOf(store[Published(p)].rows, h) # {}

\* A matched file is new or changed relative to the index rows: it has no rows
\* there, or its rows there are not what the parser yields for it now.
NewOrChanged(rows, pat) ==
    \E f \in Matched(pat) : RowsOf(rows, f) # ParseFile(f, src[f].ver)

\* C2: update_index returns "no_updates" exactly when no file the pattern matches
\* is new or changed relative to the index; a changed indexed file makes it proceed.
C2_NoUpdatesIffNothingNewOrChanged ==
    [][\A p \in Procs :
          (Calls(p, "update_index") /\ result'[p].status # "raised") =>
            (result'[p].status = "no_updates"
                <=> ~NewOrChanged(store[IndexPath(call'[p].lang)].rows, call'[p].patterns[1]))]_vars

\* C3: update_index(P) on an index that holds exactly what P parses to now (an
\* index built from P, no matched file changed since) returns "no_updates" and
\* leaves every file of the index directory as it was, each time it is called.
C3_UpdateIdempotent ==
    [][\A p \in Procs :
          (/\ Calls(p, "update_index")
           /\ Readable(IndexPath(call'[p].lang))
           /\ store[IndexPath(call'[p].lang)].rows = ReadAst(call'[p].patterns[1]))
          => /\ pc'[p] = "done"
             /\ result'[p] = Returned("no_updates", 0)
             /\ store' = store]_vars

\* update_index has returned "no_updates" on a non-empty index that is exactly
\* the parse of its pattern.
C3_Witness ==
    \E p \in Procs :
        /\ pc[p] = "done" /\ call[p].op = "update_index"
        /\ result[p].status = "no_updates"
        /\ Readable(Published(p))
        /\ store[Published(p)].rows = ReadAst(call[p].patterns[1])
        /\ store[Published(p)].rows # EmptyBag

\* C4: in the index an update publishes, no two rows of a touched file share
\* (file_path, node_id) and every row of a touched file is of the fresh parse;
\* if (file_path, node_id) was unique in the index before, it is unique after.
C4_MergeKeepsOneGeneration ==
    [][\A p \in Procs :
          Renames(p) =>
            LET new == store'[Published(p)].rows
                touched == FilePaths(fresh[p])
            IN  /\ \A f \in touched :
                      /\ RowsOf(new, f) \subseteq BagToSet(fresh[p])
                      /\ \A r1, r2 \in RowsOf(new, f) :
                            /\ new[r1] = 1
                            /\ r1.node_id = r2.node_id => r1 = r2
                /\ UniqueKeys(store[Published(p)].rows) => UniqueKeys(new)]_vars

\* An update has replaced the rows of an indexed file by rows of a newer parse
\* generation in an index with unique keys.
C4_Witness ==
    \E p \in Procs :
        /\ pc[p] = "done" /\ call[p].op = "update_index"
        /\ result[p].status = "updated"
        /\ UniqueKeys(prior[p].rows)
        /\ UniqueKeys(store[Published(p)].rows)
        /\ \E f \in Files :
              /\ \E r \in RowsOf(prior[p].rows, f) : r.gen = 1
              /\ RowsOf(store[Published(p)].rows, f) # {}
              /\ \A r \in RowsOf(store[Published(p)].rows, f) : r.gen = 2

\* update_index is between its count query and its return.
InUpdate(p) ==
    call[p].op = "update_index" /\ pc[p] \in {"copy", "writing", "staging", "rename"}

\* C5: while an update is in progress the published path holds the complete
\* pre-update index, and a step changes it only by the rename, to the complete
\* merged rows; it is never a partially written file.
C5_ReaderSeesOldOrNew ==
    [][\A p \in Procs :
          InUpdate(p) =>
            /\ Readable(Published(p))
            /\ store[Published(p)].rows = prior[p].rows
            /\ \/ store'[Published(p)] = store[Published(p)]
               \/ /\ Renames(p)
                  /\ Readable(Published(p))'
                  /\ store'[Published(p)].rows = buf[p]]_vars

\* The merge is half written to the scratch path while the published index is
\* complete.
C5_Witness ==
    \E p \in Procs :
        /\ call[p].op = "update_index" /\ pc[p] = "writing"
        /\ store[Scratch(p)].state = "partial"
        /\ Readable(Published(p))
        /\ store[Published(p)].rows # EmptyBag

\* C6: a file under the final name .index-<lang>.parquet is never half written.
C6_FinalNameNeverHalfWritten ==
    \A l \in Langs : store[IndexPath(l)].state \in {"absent", "complete"}

\* C7: when a build or an update has failed, a previously published index holds
\* its prior rows and no scratch file exists.
C7_FailureLeavesNoTrace ==
    \A p \in Procs :
        (pc[p] = "failed" /\ call[p].op \in {"index", "create_index", "update_index"}) =>
            /\ prior[p].state = "complete" =>
                  /\ Readable(Published(p))
                  /\ store[Published(p)].rows = prior[p].rows
            /\ store[Scratch(p)].state = "absent"

\* C8: every rename of an update finds the scratch file complete, written by
\* that update, and publishes it.
C8_RenamePublishesOwnSnapshot ==
    [][\A p \in Procs :
          (pc[p] = "rename" /\ pc'[p] # "rename") =>
            /\ store[Scratch(p)].state = "complete"
            /\ store[Scratch(p)].by = p
            /\ store[Scratch(p)].rows = buf[p]
            /\ pc'[p] = "done"
            /\ store'[Published(p)] = store[Scratch(p)]]_vars

\* C9: AST.index called with no pattern raises ValueError in its first step:
\* nothing is parsed, no file of the index directory changes, and the failed
\* call has left the published index as it found it.
C9_NoPatternIsConfigurationError ==
    [][\A p \in Procs :
          /\ (Calls(p, "index") /\ call'[p].patterns = <<>>) =>
                /\ pc'[p] = "failed"
                /\ result'[p] = Raised("ValueError")
                /\ store' = store
                /\ fresh'[p] = EmptyBag /\ buf'[p] = EmptyBag
          /\ (pc[p] = "failed" /\ result[p].error = "ValueError") =>
                /\ store[Published(p)] = prior[p]
                /\ store'[Published(p)] = store[Published(p)]]_vars

\* AST.index with no pattern has failed while an index built earlier exists.
C9_Witness ==
    \E p \in Procs :
        /\ pc[p] = "failed" /\ call[p].op = "index" /\ call[p].patterns = <<>>
        /\ result[p].error = "ValueError"
        /\ Readable(Published(p))
        /\ store[Published(p)].rows # EmptyBag

\* C10: a build never ends in the parser's failure on a file: it skips the file
\* and completes.
C10_ParseFailureNeverAbortsBuild ==
    \A p \in Procs :
        (call[p].op \in {"index", "create_index"} /\ pc[p] \in {"done", "failed"}) =>
            result[p].error # "ParseFailure"

\* ============================================================= queries
\* The read-only queries of AST (src/ast.py) and get_index_stats, over index
\* files whose rows carry the columns the queries read.

\* A path is the sequence of its pieces, so that its extension can be split off.
FooPy == <<"foo", ".", "py">>
BarPy == <<"bar", ".", "py">>
LibCpp == <<"lib", ".", "cpp">>
SourceFiles == {FooPy, BarPy, LibCpp}

\* The language tags indexes are built under.
QueryLangs == {"py", "cpp"}
IndexFiles == {IndexPath(l) : l \in QueryLangs}

\* SQL NULL in the semantic_type column; parent_id 0 is NULL.
NullType == 0 - 1

\* semantic_type 112: the function declarator role.
FunctionDeclarator == 112

\* One row of read_ast: the columns of the node record the queries read.
Node(f, id, parent, type, sem, name, first, last, dc) ==
    [file_path |-> f, node_id |-> id, parent_id |-> parent, type |-> type,
     semantic_type |-> sem, name |-> name, start_line |-> first, end_line |-> last,
     descendant_count |-> dc]

\* foo.py: def add(a, b) in lines 1-2, and in line 3 a declarator directly under
\* the module, of the same subtree size as add's.
FooTree ==
    { Node(FooPy, 1, 0, "module", 48, NullName, 1, 3, 5),
      Node(FooPy, 2, 1, "function_definition", NullType, <<"a", "d", "d">>, 1, 2, 2),
      Node(FooPy, 3, 2, "function_declarator", 112, NullName, 1, 1, 1),
      Node(FooPy, 4, 3, "identifier", 192, <<"a", "d", "d">>, 1, 1, 0),
      Node(FooPy, 5, 1, "function_declarator", 112, NullName, 3, 3, 1),
      Node(FooPy, 6, 5, "identifier", 192, <<"s", "u", "b">>, 3, 3, 0) }

\* bar.py: class Greeter with method greet (lines 2-3), and a declarator that
\* has no child at all (line 4).
BarTree ==
    { Node(BarPy, 1, 0, "module", 48, NullName, 1, 4, 5),
      Node(BarPy, 2, 1, "class_definition", 56, <<"G", "r">>, 1, 4, 4),
      Node(BarPy, 3, 2, "function_definition", NullType, <<"g", "r">>, 2, 3, 2),
      Node(BarPy, 4, 3, "function_declarator", 112, NullName, 2, 2, 1),
      Node(BarPy, 5, 4, "identifier", 192, <<"g", "r">>, 2, 2, 0),
      Node(BarPy, 6, 2, "function_declarator", 112, NullName, 4, 4, 0) }

\* lib.cpp: an interface (line 1), a declarator named by a qualified_identifier
\* next to an identifier (line 2), and a declarator whose only child is its
\* parameter list (line 3).
LibTree ==
    { Node(LibCpp, 1, 0, "translation_unit", 48, NullName, 1, 3, 6),
      Node(LibCpp, 2, 1, "interface_declaration", 56, <<"g", "_", "x">>, 1, 1, 0),
      Node(LibCpp, 3, 1, "function_declarator", 112, NullName, 2, 2, 2),
      Node(LibCpp, 4, 3, "qualified_identifier", 192, <<"n", ":", "g">>, 2, 2, 0),
      Node(LibCpp, 5, 3, "identifier", 192, <<"g">>, 2, 2, 0),
      Node(LibCpp, 6, 1, "function_declarator", 112, NullName, 3, 3, 1),
      Node(LibCpp, 7, 6, "parameter_list", 0, NullName, 3, 3, 0) }

\* read_ast(file, peek_mode := 'none')
Tree(f) ==
    CASE f = FooPy -> FooTree
      [] f = BarPy -> BarTree
      [] f = LibCpp -> LibTree

\* The number of lines of a source file.
LineCount(f) == IF f = BarPy THEN 4 ELSE 3

\* ------------------------------------------------------------- SQL over rows
\* The characters names and terms are made of, in code point order.
Alphabet == <<"%", "'", ":", "G", "_", "a", "b", "d", "g", "n", "r", "s", "u", "x", "z">>
CharRank(c) == CHOOSE i \in 1..Len(Alphabet) : Alphabet[i] = c

RECURSIVE StrLess(_, _)
\* a < b for two VARCHAR values.
StrLess(a, b) ==
    IF b = <<>> THEN FALSE
    ELSE IF a = <<>> THEN TRUE
    ELSE IF Head(a) = Head(b) THEN StrLess(Tail(a), Tail(b))
    ELSE CharRank(Head(a)) < CharRank(Head(b))

\* MAX(name) over non-NULL names; NULL when there is none.
MaxName(names) ==
    IF names = {} THEN NullName
    ELSE CHOOSE m \in names : \A n \in names : n = m \/ StrLess(n, m)

RECURSIVE Like(_, _)
\* s LIKE pattern: % matches any run of characters, _ any one character.
Like(s, pattern) ==
    IF pattern = <<>> THEN s = <<>>
    ELSE IF Head(pattern) = "%"
    THEN Like(s, Tail(pattern)) \/ (s # <<>> /\ Like(Tail(s), pattern))
    ELSE /\ s # <<>>
         /\ Head(pattern) = "_" \/ Head(pattern) = Head(s)
         /\ Like(Tail(s), Tail(pattern))

\* name LIKE '%{term}%': the term is spliced into the pattern as it is; NULL
\* names match nothing.
NameLike(name, term) == name # NullName /\ Like(name, <<"%">> \o term \o <<"%">>)

\* The term is spliced into the statement inside a '...' literal: a quote in it
\* ends the literal early, and what follows it does not parse as SQL.
Unparsable(term) == \E i \in 1..Len(term) : term[i] = "'"

\* lang = os.path.splitext(file_path)[1].lstrip('.')
Ext(path) ==
    LET dots == {i \in 2..Len(path) : path[i] = "."} IN
    IF dots = {} THEN ""
    ELSE LET last == CHOOSE i \in dots : \A j \in dots : j <= i IN
         IF last = Len(path) THEN "" ELSE path[last + 1]

\* The test for any index file at all: glob.glob('.index-*.parquet').
ExistsAny(path) == \E q \in IndexFiles : store[q].state # "absent"

\* os.path.exists(path)
Exists(path) == path \in DOMAIN store /\ store[path].state # "absent"

\* index_pattern = f".index-{lang}.parquet" if lang else ".index-*.parquet":
\* the files the pattern names, the glob expanded over the directory.
Selected(lang) ==
    IF lang = "" THEN {path \in IndexFiles : Exists(path)} ELSE {IndexPath(lang)}

\* read_parquet raises unless the pattern names at least one file and every
\* file it names is a complete parquet file.
CanRead(paths) == paths # {} /\ \A path \in paths : Exists(path) /\ Readable(path)

RECURSIVE ReadParquet(_)
\* read_parquet over the files: the rows of all of them.
ReadParquet(paths) ==
    IF paths = {} THEN EmptyBag
    ELSE LET path == CHOOSE x \in paths : TRUE
         IN  store[path].rows (+) ReadParquet(paths \ {path})

RECURSIVE OrderBy(_, _)
\* ORDER BY key ascending: the orders the engine may return the rows in.
OrderBy(rows, key) ==
    IF BagToSet(rows) = {} THEN {<<>>}
    ELSE LET least == {r \in BagToSet(rows) : \A q \in BagToSet(rows) : key[r] <= key[q]}
         IN  UNION {{<<r>> \o s : s \in OrderBy(rows (-) SetToBag({r}), key)} : r \in least}

\* The rank of a file path in the ordering of VARCHAR values.
PathOrder == <<BarPy, FooPy, LibCpp>>
PathRank(f) == CHOOSE i \in 1..Len(PathOrder) : PathOrder[i] = f

\* The rows of a projection or a grouping, one per element of the set it is
\* computed from: equal rows are kept as often as they arise.
Project(from, row) ==
    LET rows == {row[x] : x \in from}
    IN  [r \in rows |-> Cardinality({x \in from : row[x] = r})]

\* ------------------------------------------------------------- query results
\* The call raised e; hint: the message says how to build the missing index.
Failure(e, hint) ==
    [status |-> "raised", value |-> <<>>, error |-> e, hint |-> hint, opened |-> {}]

\* The call returned v, having opened the source files in opened.
Answer(v, opened) ==
    [status |-> "returned", value |-> v, error |-> "", hint |-> "", opened |-> opened]

\* The message of AST.funcs: f"No index found: {index}. Create with
\* ast.index('{lang}', pattern)"
BuildHint(lang) == <<"No index found", IndexPath(lang), "ast.index", lang>>

NameTypes == {"identifier", "qualified_identifier"}

\* The join on the node ids alone: ON c.parent_id = f.node_id.
ChildrenAnyFile(rows, file_path, node_id) ==
    {c \in BagToSet(rows) : c.parent_id = node_id}

\* The children the queries join a node to: ON c.parent_id = f.node_id AND
\* c.file_path = f.file_path.
Children(rows, file_path, node_id) ==
    {c \in BagToSet(rows) : c.parent_id = node_id /\ c.file_path = file_path}

\* MAX(CASE WHEN c.type IN ('identifier','qualified_identifier') THEN c.name END)
ResolvedName(children) ==
    MaxName({c.name : c \in {x \in children : x.type \in NameTypes /\ x.name # NullName}})

\* funcs without "WHERE name IS NOT NULL".
FuncsRowsUnnamed(rows, file_path) ==
    LET f == {r \in BagToSet(rows) :
                 /\ r.file_path = file_path
                 /\ r.type = "function_declarator"
                 /\ r.semantic_type = FunctionDeclarator}
        groups == {[node_id |-> r.node_id, parent_id |-> r.parent_id,
                    start_line |-> r.start_line, end_line |-> r.end_line,
                    descendant_count |-> r.descendant_count] :
                      r \in {x \in f : Children(rows, file_path, x.node_id) # {}}}
        n == [g \in groups |->
                [name |-> ResolvedName(Children(rows, file_path, g.node_id)),
                 start |-> g.start_line, end |-> g.end_line,
                 complexity |-> g.descendant_count]]
    IN  Project(groups, n)

\* The statement of AST.funcs: WITH f AS (...), n AS (... JOIN ... GROUP BY ...)
\* SELECT name, start_line, end_line, descendant_count FROM n
\* WHERE name IS NOT NULL; the ORDER BY is applied by the handler below.
FuncsRows(rows, file_path) ==
    LET f == {r \in BagToSet(rows) :
                 /\ r.file_path = file_path
                 /\ r.type = "function_declarator"
                 /\ r.semantic_type = FunctionDeclarator}
        groups == {[node_id |-> r.node_id, parent_id |-> r.parent_id,
                    start_line |-> r.start_line, end_line |-> r.end_line,
                    descendant_count |-> r.descendant_count] :
                      r \in {x \in f : Children(rows, file_path, x.node_id) # {}}}
        n == [g \in groups |->
                [name |-> ResolvedName(Children(rows, file_path, g.node_id)),
                 start |-> g.start_line, end |-> g.end_line,
                 complexity |-> g.descendant_count]]
    IN  Project({g \in groups : n[g].name # NullName}, n)

\* find without DISTINCT: one tuple per matching row.
FindRowsAll(rows, function_name) ==
    LET hits == {i \in BagToSet(rows) :
                    /\ i.type \in {"function_declarator", "function_definition"}
                    /\ i.semantic_type = FunctionDeclarator \/ i.semantic_type = NullType
                    /\ \E c \in Children(rows, i.file_path, i.node_id) :
                          c.type \in NameTypes /\ NameLike(c.name, function_name)}
        m == [i \in hits |->
                [file |-> i.file_path, start |-> i.start_line, end |-> i.end_line,
                 complexity |-> i.descendant_count]]
        tuples == {m[i] : i \in hits}
    IN  [t \in tuples |-> BagCardinality([i \in {x \in hits : m[x] = t} |-> rows[i]])]

\* The statement of AST.find: WITH m AS (SELECT DISTINCT i.file_path,
\* i.start_line, i.end_line, i.descendant_count ... WHERE ... AND EXISTS (...)).
FindRows(rows, function_name) ==
    LET hits == {i \in BagToSet(rows) :
                    /\ i.type \in {"function_declarator", "function_definition"}
                    /\ i.semantic_type = FunctionDeclarator \/ i.semantic_type = NullType
                    /\ \E c \in Children(rows, i.file_path, i.node_id) :
                          c.type \in NameTypes /\ NameLike(c.name, function_name)}
    IN  SetToBag({[file |-> i.file_path, start |-> i.start_line, end |-> i.end_line,
                   complexity |-> i.descendant_count] : i \in hits})

\* The rows of AST.src's statement before LIMIT 1: for each matching declarator
\* the span of its parent row (LEFT JOIN ... p ON p.node_id = i.parent_id AND
\* p.file_path = i.file_path), its own span when no row joins:
\* COALESCE(p.start_line, i.start_line), COALESCE(p.end_line, i.end_line).
SrcRows(rows, function_name) ==
    LET hits == {i \in BagToSet(rows) :
                    /\ i.type = "function_declarator"
                    /\ i.semantic_type = FunctionDeclarator
                    /\ \E c \in Children(rows, i.file_path, i.node_id) :
                          NameLike(c.name, function_name)}
        Parents(i) == {p \in BagToSet(rows) :
                          p.node_id = i.parent_id /\ p.file_path = i.file_path}
    IN  UNION {IF Parents(i) = {}
               THEN {[file |-> i.file_path, start |-> i.start_line, end |-> i.end_line]}
               ELSE {[file |-> i.file_path, start |-> p.start_line, end |-> p.end_line]
                        : p \in Parents(i)}
                 : i \in hits}

\* ''.join(lines[start-1:end]) of the file as it is now: the lines start..end
\* that the file has.
Lines(file, start, end) ==
    [file |-> file, lines |-> {k \in start..end : k <= LineCount(file)}]

\* The value AST.src returns when the statement yields no row: None.
NotFound == [file |-> <<>>, lines |-> {}]

\* LIMIT 100
Limit == 100

\* The first n elements of a sequence.
First(s, n) == SubSeq(s, 1, IF Len(s) < n THEN Len(s) ELSE n)

SearchTypes ==
    {"function_declarator", "function_definition", "class_definition",
     "struct_declaration", "variable_declaration"}

\* The statement of AST.search before ORDER BY and LIMIT.
SearchRows(rows, term) ==
    LET hits == {r \in BagToSet(rows) : NameLike(r.name, term) /\ r.type \in SearchTypes}
        row == [r \in hits |->
                  [file |-> r.file_path, name |-> r.name, type |-> r.type,
                   line |-> r.start_line]]
        out == {row[r] : r \in hits}
    IN  [e \in out |-> BagCardinality([r \in {x \in hits : row[x] = e} |-> rows[r]])]

ClassTypes ==
    {"class_definition", "class_declaration", "struct_declaration",
     "interface_declaration"}

\* The statement of AST.classes before ORDER BY and LIMIT.
ClassesRows(rows, term) ==
    LET hits == {r \in BagToSet(rows) : r.type \in ClassTypes /\ NameLike(r.name, term)}
        row == [r \in hits |->
                  [file |-> r.file_path, name |-> r.name, start |-> r.start_line,
                   end |-> r.end_line, complexity |-> r.descendant_count]]
        out == {row[r] : r \in hits}
    IN  [e \in out |-> BagCardinality([r \in {x \in hits : row[x] = e} |-> rows[r]])]

\* The key of ORDER BY file_path, start_line.
ByFileAndLine(entries) ==
    [e \in BagToSet(entries) |->
        PathRank(e.file) * 1000 + (IF "line" \in DOMAIN e THEN e.line ELSE e.start)]

\* The statement of AST.complex before ORDER BY: the declarators at or over the
\* threshold, joined to their children, GROUP BY f.file_path, f.descendant_count.
ComplexRows(rows, threshold) ==
    LET f == {r \in BagToSet(rows) :
                 /\ r.type = "function_declarator"
                 /\ r.semantic_type = FunctionDeclarator
                 /\ r.descendant_count >= threshold}
        joined == {r \in f : Children(rows, r.file_path, r.node_id) # {}}
        groups == {[file_path |-> r.file_path, descendant_count |-> r.descendant_count]
                      : r \in joined}
        Members(g) == {r \in joined : r.file_path = g.file_path
                                      /\ r.descendant_count = g.descendant_count}
        entry == [g \in groups |->
                    [file |-> g.file_path,
                     name |-> ResolvedName(UNION {Children(rows, r.file_path, r.node_id)
                                                     : r \in Members(g)}),
                     complexity |-> g.descendant_count]]
    IN  Project(groups, entry)

\* The key of ORDER BY f.descendant_count DESC.
ByComplexityDesc(entries) == [e \in BagToSet(entries) |-> 0 - e.complexity]

\* COUNT(*) FILTER (WHERE type = 'function_declarator' AND semantic_type = 112)
TotalFunctions(rows) ==
    BagCardinality(Where(rows, {r \in BagToSet(rows) :
        r.type = "function_declarator" /\ r.semantic_type = FunctionDeclarator}))

\* COUNT(*) FILTER (WHERE type IN ('function_declarator','function_definition')
\*                  AND (semantic_type = 112 OR semantic_type IS NULL))
Functions(rows) ==
    BagCardinality(Where(rows, {r \in BagToSet(rows) :
        /\ r.type \in {"function_declarator", "function_definition"}
        /\ r.semantic_type = FunctionDeclarator \/ r.semantic_type = NullType}))

\* The row of get_index_stats' statement.
IndexStats(rows) ==
    [indexed_files |-> IndexedFiles(rows),
     total_nodes |-> TotalNodes(rows),
     total_functions |-> TotalFunctions(rows),
     total_classes |-> BagCardinality(Where(rows, {r \in BagToSet(rows) :
                          r.type \in {"class_definition", "class_declaration"}}))]

\* lang = index_path.replace('.index-', '').replace('.parquet', '')
LangOf(index_path) == index_path[2]

\* The entry of AST.stats for one index file.
StatsEntry(index_path) ==
    [lang |-> LangOf(index_path),
     files |-> IndexedFiles(store[index_path].rows),
     nodes |-> TotalNodes(store[index_path].rows),
     functions |-> Functions(store[index_path].rows)]

\* The key of sorted(stats, key=lambda x: x['nodes'], reverse=True).
ByNodesDesc(entries) == [e \in BagToSet(entries) |-> 0 - e.nodes]

\* ------------------------------------------------------------- query handlers
Terms == {<<"a", "d", "d">>, <<"g">>, <<"_">>, <<"z">>, <<"'">>}
Thresholds == 0..2

\* A query call begins.
Ask(p, op, l, arg) ==
    call' = [call EXCEPT ![p] = [op |-> op, lang |-> l, patterns |-> <<>>, arg |-> arg]]

\* The handler ends: it returns or raises r.
Reply(p, r) ==
    /\ result' = [result EXCEPT ![p] = r]
    /\ pc' = [pc EXCEPT ![p] = IF r.status = "raised" THEN "failed" ELSE "done"]

\* AST.funcs that builds the index it misses instead of raising: it leaves an
\* empty index file behind.
FuncsBuilding(p, file_path) ==
    /\ pc[p] = "idle"
    /\ Ask(p, "funcs", Ext(file_path), file_path)
    /\ LET lang == Ext(file_path)
           index == IndexPath(lang)
       IN  IF ~Exists(index)
           THEN /\ Reply(p, Answer(<<>>, {}))
                /\ store' = [store EXCEPT ![index] = Replaced(p, EmptyBag)]
           ELSE /\ store' = store
                /\ IF ~Readable(index)
                   THEN Reply(p, Failure("IOException", <<>>))
                   ELSE LET n == FuncsRows(store[index].rows, file_path) IN
                        \E out \in OrderBy(n, [e \in BagToSet(n) |-> e.start]) :
                            Reply(p, Answer(out, {}))
    /\ UNCHANGED <<src, buf, fresh, prior, faults>>

\* AST.funcs(file_path)
Funcs(p, file_path) ==
    /\ pc[p] = "idle"
    /\ Ask(p, "funcs", Ext(file_path), file_path)
    /\ LET lang == Ext(file_path)
           index == IndexPath(lang)
       IN  IF ~Exists(index)
           THEN Reply(p, Failure("FileNotFoundError", BuildHint(lang)))
           ELSE IF ~Readable(index)
           THEN Reply(p, Failure("IOException", <<>>))
           ELSE LET n == FuncsRows(store[index].rows, file_path) IN
                \E out \in OrderBy(n, [e \in BagToSet(n) |-> e.start]) :
                    Reply(p, Answer(out, {}))
    /\ UNCHANGED <<src, store, buf, fresh, prior, faults>>

\* AST.find(function_name, lang)
Find(p, function_name, lang) ==
    /\ pc[p] = "idle"
    /\ Ask(p, "find", lang, function_name)
    /\ IF Unparsable(function_name)
       THEN Reply(p, Failure("ParserException", <<>>))
       ELSE IF ~CanRead(Selected(lang))
       THEN Reply(p, Failure("IOException", <<>>))
       ELSE LET m == FindRows(ReadParquet(Selected(lang)), function_name) IN
            \E out \in OrderBy(m, [e \in BagToSet(m) |-> PathRank(e.file)]) :
                Reply(p, Answer(out, {}))
    /\ UNCHANGED <<src, store, buf, fresh, prior, faults>>

\* AST.src(function_name)
Src(p, function_name) ==
    /\ pc[p] = "idle"
    /\ Ask(p, "src", "", function_name)
    /\ IF Unparsable(function_name)
       THEN Reply(p, Failure("ParserException", <<>>))
       ELSE IF ~CanRead(Selected(""))
       THEN Reply(p, Failure("IOException", <<>>))
       ELSE LET m == SrcRows(ReadParquet(Selected("")), function_name) IN
            IF m = {}
            THEN Reply(p, Answer(NotFound, {}))
            ELSE \E r \in m :
                    IF src[r.file].ver = 0
                    THEN Reply(p, Failure("FileNotFoundError", <<>>))
                    ELSE Reply(p, Answer(Lines(r.file, r.start, r.end), {r.file}))
    /\ UNCHANGED <<src, store, buf, fresh, prior, faults>>

\* AST.search(term, lang)
Search(p, term, lang) ==
    /\ pc[p] = "idle"
    /\ Ask(p, "search", lang, term)
    /\ IF Unparsable(term)
       THEN Reply(p, Failure("ParserException", <<>>))
       ELSE IF ~CanRead(Selected(lang))
       THEN Reply(p, Failure("IOException", <<>>))
       ELSE LET rows == SearchRows(ReadParquet(Selected(lang)), term) IN
            \E out \in OrderBy(rows, ByFileAndLine(rows)) :
                Reply(p, Answer(First(out, Limit), {}))
    /\ UNCHANGED <<src, store, buf, fresh, prior, faults>>

\* AST.classes(term, lang)
Classes(p, term, lang) ==
    /\ pc[p] = "idle"
    /\ Ask(p, "classes", lang, term)
    /\ IF Unparsable(term)
       THEN Reply(p, Failure("ParserException", <<>>))
       ELSE IF ~CanRead(Selected(lang))
       THEN Reply(p, Failure("IOException", <<>>))
       ELSE LET rows == ClassesRows(ReadParquet(Selected(lang)), term) IN
            \E out \in OrderBy(rows, ByFileAndLine(rows)) :
                Reply(p, Answer(First(out, Limit), {}))
    /\ UNCHANGED <<src, store, buf, fresh, prior, faults>>

\* AST.complex(threshold)
Complex(p, threshold) ==
    /\ pc[p] = "idle"
    /\ Ask(p, "complex", "", threshold)
    /\ IF ~CanRead(Selected(""))
       THEN Reply(p, Failure("IOException", <<>>))
       ELSE LET rows == ComplexRows(ReadParquet(Selected("")), threshold) IN
            \E out \in OrderBy(rows, ByComplexityDesc(rows)) :
                Reply(p, Answer(out, {}))
    /\ UNCHANGED <<src, store, buf, fresh, prior, faults>>

\* AST.stats()
AstStats(p) ==
    /\ pc[p] = "idle"
    /\ Ask(p, "stats", "", <<>>)
    /\ IF \E index_path \in Selected("") : ~Readable(index_path)
       THEN Reply(p, Failure("IOException", <<>>))
       ELSE LET stats == SetToBag({StatsEntry(index_path) : index_path \in Selected("")}) IN
            \E out \in OrderBy(stats, ByNodesDesc(stats)) :
                Reply(p, Answer(out, {}))
    /\ UNCHANGED <<src, store, buf, fresh, prior, faults>>

\* ASTIndexManager.get_index_stats(index_path)
GetIndexStats(p, lang) ==
    /\ pc[p] = "idle"
    /\ Ask(p, "get_index_stats", lang, IndexPath(lang))
    /\ IF ~CanRead({IndexPath(lang)})
       THEN Reply(p, Failure("IOException", <<>>))
       ELSE Reply(p, Answer(IndexStats(store[IndexPath(lang)].rows), {}))
    /\ UNCHANGED <<src, store, buf, fresh, prior, faults>>

\* ------------------------------------------------------------- query specification
\* The rows of an index built over the files of S.
BuiltFrom(S) == SetToBag(UNION {Tree(f) : f \in S})

\* What an index file may hold: nothing yet, or the rows of a build over some
\* of the source files, those of foo.py twice when two patterns matched it.
IndexContents ==
    {Absent} \cup
    {Replaced(1, BuiltFrom(S) (+) BuiltFrom(T)) : S \in SUBSET SourceFiles, T \in {{}, {FooPy}}}

\* The scratch paths of the updates of the index files.
ScratchFiles == {TempPath(path) : path \in IndexFiles}

\* The file a COPY that failed while writing has left behind.
Leftover == Dropped(Truncated(Absent, 1), 1)

\* Any index directory builds and updates may have left, with no call running.
InitQuery ==
    /\ src = [f \in SourceFiles |-> [ver |-> 1, ok |-> TRUE]]
    /\ store \in {index @@ scratch :
                      index \in [IndexFiles -> IndexContents \cup {Leftover}],
                      scratch \in [ScratchFiles -> {Absent, Leftover}]}
    /\ pc = [p \in Procs |-> "idle"]
    /\ call = [p \in Procs |-> NoCall]
    /\ buf = [p \in Procs |-> EmptyBag]
    /\ fresh = [p \in Procs |-> EmptyBag]
    /\ result = [p \in Procs |-> NoResult]
    /\ prior = [p \in Procs |-> Absent]
    /\ faults = 0

Ops(p) ==
    \/ \E f \in SourceFiles : Funcs(p, f)
    \/ \E t \in Terms, l \in QueryLangs \cup {""} : Find(p, t, l)
    \/ \E t \in Terms : Src(p, t)
    \/ \E t \in Terms, l \in QueryLangs \cup {""} : Search(p, t, l)
    \/ \E t \in Terms, l \in QueryLangs \cup {""} : Classes(p, t, l)
    \/ \E t \in Thresholds : Complex(p, t)
    \/ AstStats(p)
    \/ \E l \in QueryLangs : GetIndexStats(p, l)
    \/ Return(p)

NextQuery == Ops(1)

SpecQuery == InitQuery /\ [][NextQuery]_vars

\* ------------------------------------------------------------- query properties
\* Caller p's call of one of ops has ended.
Ended(p, ops) == pc[p] \in {"done", "failed"} /\ call[p].op \in ops

\* Caller p's call of one of ops has returned.
Gave(p, ops) == pc[p] = "done" /\ call[p].op \in ops

\* The rows a call over the indexes of lang reads.
RowsFor(lang) == BagToSet(ReadParquet(Selected(lang)))

\* term occurs in name as a substring.
Contains(name, term) ==
    /\ name # NullName
    /\ \E i \in 1..(Len(name) + 1) :
          i + Len(term) - 1 <= Len(name) /\ SubSeq(name, i, i + Len(term) - 1) = term

\* The term has no character that LIKE or the SQL literal reads specially.
Plain(term) == \A i \in 1..Len(term) : term[i] \notin {"%", "_", "'"}

\* C11: a query (funcs, find, search, classes) for a language that has no index
\* file raises the missing-index error, whose message names the expected index
\* file and the build call that creates it.
C11_MissingIndexIsReported ==
    \A p \in Procs :
        ( /\ Ended(p, {"funcs", "find", "search", "classes"})
          /\ call[p].lang # ""
          /\ ~Exists(IndexPath(call[p].lang))
          /\ Plain(call[p].arg) ) =>
            /\ result[p].status = "raised"
            /\ result[p].error = "FileNotFoundError"
            /\ result[p].hint = BuildHint(call[p].lang)

\* The declarators of file f in rows whose name resolves: a direct child in the
\* same file is an identifier or qualified_identifier with a name.
Declarators(rows, f) ==
    {d \in rows : /\ d.file_path = f
                  /\ d.type = "function_declarator"
                  /\ d.semantic_type = 112}

NameBearers(rows, d) ==
    {c \in rows : /\ c.file_path = d.file_path
                  /\ c.parent_id = d.node_id
                  /\ c.type \in {"identifier", "qualified_identifier"}
                  /\ c.name # NullName}

Resolvable(rows, f) == {d \in Declarators(rows, f) : NameBearers(rows, d) # {}}

\* C12: funcs(F) returns one entry per resolvable declarator of F and no other;
\* the entry carries the declarator's start_line, end_line and descendant_count
\* and the name of one of its name-bearing children; the entries are in
\* ascending start_line order.
C12_FuncsListsResolvableDeclarators ==
    \A p \in Procs :
        Gave(p, {"funcs"}) =>
            LET out == result[p].value
                rows == BagToSet(store[IndexPath(call[p].lang)].rows)
                decls == Resolvable(rows, call[p].arg)
            IN  /\ Len(out) = Cardinality(decls)
                /\ \E h \in [1..Len(out) -> decls] :
                      /\ \A i, j \in 1..Len(out) : i # j => h[i] # h[j]
                      /\ \A i \in 1..Len(out) :
                            /\ out[i].start = h[i].start_line
                            /\ out[i].end = h[i].end_line
                            /\ out[i].complexity = h[i].descendant_count
                            /\ out[i].name \in {c.name : c \in NameBearers(rows, h[i])}
                /\ \A i, j \in 1..Len(out) : i < j => out[i].start <= out[j].start

\* funcs has listed the two functions of foo.py from an index that holds the
\* rows of foo.py twice.
C12_Witness ==
    \E p \in Procs :
        /\ Gave(p, {"funcs"})
        /\ call[p].arg = FooPy
        /\ Len(result[p].value) = 2
        /\ \E r \in BagToSet(store[IndexPath("py")].rows) : store[IndexPath("py")].rows[r] = 2

\* The declarators of file f whose name does not resolve: no child, or no
\* identifier or qualified_identifier child with a name.
Unresolved(rows, f) == Declarators(rows, f) \ Resolvable(rows, f)

\* The sum of n[x] over the elements x of S.
RECURSIVE Sum(_, _)
Sum(n, S) ==
    IF S = {} THEN 0 ELSE LET x == CHOOSE y \in S : TRUE IN n[x] + Sum(n, S \ {x})

\* C13: a declarator whose name does not resolve is in no entry funcs returns,
\* and the node totals of both stats operations count it like every other row.
C13_UnresolvedDeclaratorCountedNotListed ==
    \A p \in Procs :
        /\ Gave(p, {"funcs"}) =>
              LET table == store[IndexPath(call[p].lang)].rows
                  lost == Unresolved(BagToSet(table), call[p].arg)
              IN  /\ \A u \in lost : \A i \in 1..Len(result[p].value) :
                        ~ /\ result[p].value[i].start = u.start_line
                          /\ result[p].value[i].end = u.end_line
                          /\ result[p].value[i].complexity = u.descendant_count
                  /\ \A i \in 1..Len(result[p].value) : result[p].value[i].name # NullName
                  /\ IndexStats(table).total_nodes =
                        Sum(table, lost) + Sum(table, BagToSet(table) \ lost)
        /\ Gave(p, {"get_index_stats"}) =>
              LET table == store[call[p].arg] IN
              result[p].value.total_nodes = Sum(table.rows, BagToSet(table.rows))
        /\ Gave(p, {"stats"}) =>
              \A i \in 1..Len(result[p].value) :
                  LET table == store[IndexPath(result[p].value[i].lang)] IN
                  result[p].value[i].nodes = Sum(table.rows, BagToSet(table.rows))

\* funcs has listed lib.cpp, an indexed file with a declarator that has only a
\* parameter list under it.
C13_Witness ==
    \E p \in Procs :
        /\ Gave(p, {"funcs"})
        /\ call[p].arg = LibCpp
        /\ Len(result[p].value) = 1
        /\ Unresolved(BagToSet(store[IndexPath("cpp")].rows), LibCpp) # {}

\* The tuples find reports for the rows that qualify: a function_declarator or
\* function_definition, semantic_type 112 or unset, with an identifier or
\* qualified_identifier child in the same file whose name is in names.
FunctionTuples(rows, names) ==
    {[file |-> i.file_path, start |-> i.start_line, end |-> i.end_line,
      complexity |-> i.descendant_count] :
        i \in {x \in rows :
                 /\ x.type \in {"function_declarator", "function_definition"}
                 /\ x.semantic_type \in {112, NullType}
                 /\ \E c \in rows : /\ c.parent_id = x.node_id
                                    /\ c.file_path = x.file_path
                                    /\ c.type \in {"identifier", "qualified_identifier"}
                                    /\ c.name \in names}}

\* The names in rows.
Names(rows) == {r.name : r \in rows} \ {NullName}

\* The elements of a sequence.
Range(s) == {s[i] : i \in 1..Len(s)}

SrcMatches(rows, term) ==
    {i \in rows : /\ i.type = "function_declarator"
                  /\ i.semantic_type = 112
                  /\ \E c \in rows : /\ c.parent_id = i.node_id
                                     /\ c.file_path = i.file_path
                                     /\ NameLike(c.name, term)}

\* The function definition nodes that are the parent of declarator i.
Definitions(rows, i) ==
    {d \in rows : /\ d.node_id = i.parent_id
                  /\ d.file_path = i.file_path
                  /\ d.type = "function_definition"}

\* C15: src returns the lines of a matched declarator's parent definition when
\* it has one, the declarator's own lines when it has none; when nothing
\* matches it returns the not-found value and opens no source file.
C15_SrcPrefersDefinitionSpan ==
    \A p \in Procs :
        Gave(p, {"src"}) =>
            LET rows == RowsFor("")
                matches == SrcMatches(rows, call[p].arg)
            IN  IF matches = {}
                THEN result[p].value = NotFound /\ result[p].opened = {}
                ELSE \E i \in matches :
                        \/ \E d \in Definitions(rows, i) :
                              result[p].value =
                                [file |-> i.file_path, lines |-> d.start_line..d.end_line]
                        \/ /\ Definitions(rows, i) = {}
                           /\ result[p].value =
                                [file |-> i.file_path, lines |-> i.start_line..i.end_line]

\* The node types of the categories search covers: function, class, struct,
\* interface, variable declaration.
DeclarationTypes ==
    {"function_declarator", "function_definition", "class_definition",
     "struct_declaration", "interface_declaration", "variable_declaration"}

\* The position of a node, or of a search entry, in (file_path, start_line) order.
Before(file1, line1, file2, line2) ==
    \/ PathRank(file1) < PathRank(file2)
    \/ file1 = file2 /\ line1 < line2

\* C16: search(term, language) returns, in ascending (file_path, start_line)
\* order, the first 100 (all if fewer) of the named nodes of the covered
\* categories whose name contains term: at most 100 entries, none of another
\* category, and no node left out that sorts before a returned one.  Stated
\* for terms without wildcard characters, for which LIKE is containment.
C16_SearchReturnsFirstHundred ==
    \A p \in Procs :
        (Gave(p, {"search"}) /\ Plain(call[p].arg)) =>
            LET out == result[p].value
                table == ReadParquet(Selected(call[p].lang))
                nodes == {r \in BagToSet(table) :
                            Contains(r.name, call[p].arg) /\ r.type \in DeclarationTypes}
                total == Sum(table, nodes)
            IN  /\ Len(out) <= 100
                /\ Len(out) = IF total < 100 THEN total ELSE 100
                /\ \A i \in 1..Len(out) : \E r \in nodes :
                      /\ out[i].file = r.file_path /\ out[i].line = r.start_line
                      /\ out[i].name = r.name /\ out[i].type = r.type
                /\ \A i, j \in 1..Len(out) :
                      i < j => ~Before(out[j].file, out[j].line, out[i].file, out[i].line)
                /\ \A r \in nodes :
                      (\E j \in 1..Len(out) :
                            Before(r.file_path, r.start_line, out[j].file, out[j].line)) =>
                        \E i \in 1..Len(out) :
                            /\ out[i].file = r.file_path /\ out[i].line = r.start_line
                            /\ out[i].name = r.name /\ out[i].type = r.type

\* C17: with the selected indexes in place, search and find called with a term
\* that no indexed name contains return the empty list, and src returns the
\* not-found value; none of them raises.  Stated for terms free of the LIKE
\* wildcards.
C17_NoMatchIsNotAnError ==
    \A p \in Procs :
        ( /\ Ended(p, {"search", "find", "src"})
          /\ CanRead(Selected(call[p].lang))
          /\ \A i \in 1..Len(call[p].arg) : call[p].arg[i] \notin {"%", "_"}
          /\ \A n \in Names(RowsFor(call[p].lang)) : ~Contains(n, call[p].arg) ) =>
            /\ result[p].status = "returned"
            /\ result[p].value = IF call[p].op = "src" THEN NotFound ELSE <<>>

\* The resolvable declarators of all files in rows.
AllResolvable(rows) == UNION {Resolvable(rows, f) : f \in {r.file_path : r \in rows}}

\* C18: complex(t) returns one entry for every resolvable declarator with
\* descendant_count >= t across all indexes, also when several of one file
\* have the same descendant_count; the entries are in descending order of
\* descendant_count.
C18_ComplexListsEveryDeclarator ==
    \A p \in Procs :
        Gave(p, {"complex"}) =>
            LET out == result[p].value
                decls == {d \in AllResolvable(RowsFor("")) :
                             d.descendant_count >= call[p].arg}
            IN  /\ Len(out) = Cardinality(decls)
                /\ \A i, j \in 1..Len(out) : i < j => out[i].complexity >= out[j].complexity

\* The rows of a table with type function_declarator and semantic_type 112,
\* counted as often as the table holds them.
DeclaratorCount(table) ==
    Sum(table, {r \in BagToSet(table) :
                  r.type = "function_declarator" /\ r.semantic_type = 112})

\* C19: the function count of both stats operations is the number of
\* function_declarator rows with semantic_type 112 of the index.
C19_FunctionCountCountsDeclarators ==
    \A p \in Procs :
        /\ Gave(p, {"get_index_stats"}) =>
              result[p].value.total_functions = DeclaratorCount(store[call[p].arg].rows)
        /\ Gave(p, {"stats"}) =>
              \A i \in 1..Len(result[p].value) :
                  result[p].value[i].functions =
                      DeclaratorCount(store[IndexPath(result[p].value[i].lang)].rows)

\* The files the patterns of caller p's build match now.
MatchedBy(p) == UNION {Matched(call[p].patterns[i]) : i \in 1..Len(call[p].patterns)}

\* C20: a build parses exactly the files its patterns match, and stats on the
\* index it wrote reports as many distinct files: create_index in the stats it
\* returns, AST.index in the index file it leaves for AST.stats.
C20_StatsCountsFilesOfBuild ==
    [][\A p \in Procs :
          /\ ( /\ call[p].op \in {"index", "create_index"}
               /\ pc[p] = "copy" /\ pc'[p] \in {"writing", "staging"} ) =>
                FilePaths(fresh'[p]) = MatchedBy(p)
          /\ (pc[p] = "stats" /\ pc'[p] = "done") =>
                result'[p].indexed_files = Cardinality(FilePaths(fresh[p]))
          /\ ( /\ call[p].op = "index"
               /\ pc[p] \in {"writing", "staging"} /\ pc'[p] = "done" ) =>
                IndexedFiles(store'[Published(p)].rows) = Cardinality(FilePaths(fresh[p]))]_vars

\* AST.index has built an index from two patterns that both match b.py: the
\* index holds the rows of b.py twice, and those of a second file.
C20_Witness ==
    \E p \in Procs :
        /\ pc[p] = "done" /\ call[p].op = "index" /\ Len(call[p].patterns) = 2
        /\ Readable(Published(p))
        /\ \E r \in BagToSet(store[Published(p)].rows) : store[Published(p)].rows[r] = 2
        /\ IndexedFiles(store[Published(p)].rows) >= 2

\* ------------------------------------------------------------- index invariants
\* C21: the index a build leaves holds each matched file's records once,
\* however many of its patterns match the file: no two rows share
\* (file_path, node_id), and the node total stats reports counts each node once.
C21_OverlappingPatternsIndexedOnce ==
    \A p \in Procs :
        ( /\ call[p].op \in {"index", "create_index"}
          /\ pc[p] = "done"
          /\ Readable(Published(p)) ) =>
            /\ UniqueKeys(store[Published(p)].rows)
            /\ TotalNodes(store[Published(p)].rows)
                  = Cardinality(BagToSet(store[Published(p)].rows))

\* The published index paths.
PublishedPaths == {IndexPath(l) : l \in Langs}

\* A parent's line span encloses the span of each of its children in the file.
Containment(rows) ==
    \A n, parent \in BagToSet(rows) :
        ( /\ n.parent_id # 0
          /\ parent.file_path = n.file_path
          /\ parent.node_id = n.parent_id ) =>
            /\ parent.start_line <= n.start_line
            /\ parent.end_line >= n.end_line

\* C22: in every readable published index, whatever builds and updates wrote
\* it, each row with a parent_id lies within the line span of every row of its
\* file that carries that node_id; a child is never held together with a
\* parent of an older parse.
C22_ContainmentInPublishedIndex ==
    \A path \in PublishedPaths :
        Readable(path) => Containment(store[path].rows)

\* An update has published an index in which one file is of a newer parse than
\* it was before, next to a file whose rows the update kept.
C22_Witness ==
    \E p \in Procs :
        /\ pc[p] = "done" /\ call[p].op = "update_index"
        /\ result[p].status = "updated"
        /\ Readable(Published(p))
        /\ \E f, g \in Files :
              /\ f # g
              /\ \E r \in RowsOf(prior[p].rows, f) : r.gen = 1
              /\ \E r \in RowsOf(store[Published(p)].rows, f) :
                    r.gen = 2 /\ r.parent_id # 0
              /\ RowsOf(store[Published(p)].rows, g) = RowsOf(prior[p].rows, g)
              /\ RowsOf(prior[p].rows, g) # {}

\* The rows of n's file whose parent_id is n's node_id.
ChildRecords(rows, n) ==
    {c \in BagToSet(rows) : c.file_path = n.file_path /\ c.parent_id = n.node_id}

\* descendant_count is the sum of descendant_count + 1 over the child records,
\* each record of the table counted; a row without child records has 0.
Aggregate(rows) ==
    \A n \in BagToSet(rows) :
        n.descendant_count =
            Sum([c \in ChildRecords(rows, n) |-> rows[c] * (c.descendant_count + 1)],
                ChildRecords(rows, n))

\* C23: in every readable published index, whatever builds and updates wrote
\* it, the descendant_count of each row is the sum of descendant_count + 1 over
\* the records of its file whose parent_id is its node_id, and 0 without any.
C23_AggregateInPublishedIndex ==
    \A path \in PublishedPaths :
        Readable(path) => Aggregate(store[path].rows)

\* The aggregate rule in the indexes that hold no record twice.
C23_AggregateWhereRecordsAreSingle ==
    \A path \in PublishedPaths :
        (Readable(path) /\ UniqueKeys(store[path].rows)) => Aggregate(store[path].rows)

\* ------------------------------------------------------------- query frame
\* The query operations of AST.
QueryOps == {"funcs", "find", "src", "search", "classes", "complex", "stats"}

\* C24: a query changes no file of the index directory: the step in which it
\* runs and the step in which it hands back its result or its error leave every
\* index file and every scratch path as they were, existence and rows.
C24_QueriesAreReadOnly ==
    [][\A p \in Procs :
          (call[p].op \in QueryOps \/ call'[p].op \in QueryOps) => store' = store]_vars

\* A query has failed in a directory that holds an index with rows and the
\* scratch file of a failed update.
C24_Witness ==
    \E p \in Procs :
        /\ Ended(p, QueryOps) /\ result[p].status = "raised"
        /\ \E path \in IndexFiles :
              /\ Readable(path) /\ store[path].rows # EmptyBag
              /\ store[TempPath(path)].state = "partial"
        /\ \E path \in IndexFiles : ~Exists(path)

\* ------------------------------------------------------------- semantic codes
\* semantic_type is one unsigned byte.
Codes == 0..255

\* semantic_type >> k
ShiftRight(v, k) == v \div 2^k

RECURSIVE BitAnd(_, _)
\* a & b
BitAnd(a, b) ==
    IF a = 0 \/ b = 0 THEN 0
    ELSE (a % 2) * (b % 2) + 2 * BitAnd(a \div 2, b \div 2)

\* The WHEN arms of semantic_type_name: code -> name, as <<prefix, rest>>.
TypeNames ==
    (0 :> <<"PARSER", "CONSTRUCT">>) @@ (4 :> <<"PARSER", "DELIMITER">>) @@
    (8 :> <<"PARSER", "WHITESPACE">>) @@ (12 :> <<"PARSER", "ERROR">>) @@
    (32 :> <<"EXECUTION", "STATEMENT">>) @@ (36 :> <<"EXECUTION", "DECLARATION">>) @@
    (40 :> <<"EXECUTION", "INVOCATION">>) @@ (44 :> <<"EXECUTION", "MUTATION">>) @@
    (48 :> <<"DEFINITION", "MODULE">>) @@ (52 :> <<"DEFINITION", "FUNCTION">>) @@
    (56 :> <<"DEFINITION", "CLASS">>) @@ (60 :> <<"DEFINITION", "VARIABLE">>) @@
    (64 :> <<"FLOW", "CONDITIONAL">>) @@ (68 :> <<"FLOW", "LOOP">>) @@
    (72 :> <<"FLOW", "JUMP">>) @@ (76 :> <<"FLOW", "EXCEPTION">>) @@
    (80 :> <<"FLOW", "SYNC">>) @@
    (96 :> <<"COMPUTATION", "CALL">>) @@ (100 :> <<"COMPUTATION", "ACCESS">>) @@
    (104 :> <<"COMPUTATION", "CAST">>) @@ (108 :> <<"COMPUTATION", "SLICE">>) @@
    (128 :> <<"LITERAL", "NUMBER">>) @@ (129 :> <<"LITERAL", "STRING">>) @@
    (136 :> <<"LITERAL", "ATOMIC">>) @@ (140 :> <<"LITERAL", "STRUCTURED">>) @@
    (160 :> <<"OPERATOR", "ARITHMETIC">>) @@ (164 :> <<"OPERATOR", "LOGICAL">>) @@
    (168 :> <<"OPERATOR", "COMPARISON">>) @@ (172 :> <<"OPERATOR", "ASSIGNMENT">>) @@
    (192 :> <<"IDENTIFIER", "COMMON">>) @@ (196 :> <<"IDENTIFIER", "TYPE">>) @@
    (200 :> <<"IDENTIFIER", "ANNOTATION">>) @@ (204 :> <<"IDENTIFIER", "SPECIAL">>) @@
    (240 :> <<"TYPE", "PRIMITIVE">>) @@ (241 :> <<"TYPE", "OBJECT">>) @@
    (244 :> <<"TYPE", "PARAMETERIZED">>) @@ (248 :> <<"TYPE", "ANNOTATION">>)

\* MACRO semantic_type_name(semantic_type): ELSE 'UNKNOWN_' || semantic_type
semantic_type_name(v) ==
    IF v \in DOMAIN TypeNames THEN TypeNames[v] ELSE <<"UNKNOWN", ToString(v)>>

\* The WHEN arms of semantic_super_kind.
SuperKindNames == (0 :> "PARSER") @@ (1 :> "SEMANTIC") @@ (2 :> "SYNTAX") @@ (3 :> "TYPE")

\* MACRO semantic_super_kind(semantic_type): CASE (semantic_type >> 6) & 3
semantic_super_kind(v) ==
    LET k == BitAnd(ShiftRight(v, 6), 3)
    IN  IF k \in DOMAIN SuperKindNames THEN SuperKindNames[k] ELSE "UNKNOWN"

\* The WHEN arms of semantic_kind.
KindNames ==
    (0 :> "PARSER") @@ (2 :> "EXECUTION") @@ (3 :> "DEFINITION") @@
    (4 :> "FLOW_CONTROL") @@ (6 :> "COMPUTATION") @@ (8 :> "LITERAL") @@
    (10 :> "OPERATOR") @@ (12 :> "IDENTIFIER") @@ (15 :> "TYPE")

\* MACRO semantic_kind(semantic_type): CASE (semantic_type >> 4) & 15
semantic_kind(v) ==
    LET k == BitAnd(ShiftRight(v, 4), 15)
    IN  IF k \in DOMAIN KindNames THEN KindNames[k] ELSE "UNKNOWN"

\* SELECT semantic_type_name(v)
SemanticTypeName(p, v) ==
    /\ pc[p] = "idle"
    /\ Ask(p, "semantic_type_name", "", v)
    /\ Reply(p, Answer(semantic_type_name(v), {}))
    /\ UNCHANGED <<src, store, buf, fresh, prior, faults>>

\* SELECT semantic_super_kind(v)
SemanticSuperKind(p, v) ==
    /\ pc[p] = "idle"
    /\ Ask(p, "semantic_super_kind", "", v)
    /\ Reply(p, Answer(semantic_super_kind(v), {}))
    /\ UNCHANGED <<src, store, buf, fresh, prior, faults>>

\* SELECT semantic_kind(v)
SemanticKind(p, v) ==
    /\ pc[p] = "idle"
    /\ Ask(p, "semantic_kind", "", v)
    /\ Reply(p, Answer(semantic_kind(v), {}))
    /\ UNCHANGED <<src, store, buf, fresh, prior, faults>>

\* The macros applied to any code a semantic_type column can hold.
NextKinds ==
    \/ \E v \in Codes : SemanticTypeName(1, v)
    \/ \E v \in Codes : SemanticSuperKind(1, v)
    \/ \E v \in Codes : SemanticKind(1, v)
    \/ Return(1)

SpecKinds == Init /\ [][NextKinds]_vars

\* ------------------------------------------------------------- semantic code properties
\* The canonical bands of the kind taxonomy: name -> codes.
Bands ==
    [PARSER |-> 0..15, EXECUTION |-> 32..47, DEFINITION |-> 48..63,
     FLOW_CONTROL |-> 64..95, COMPUTATION |-> 96..111, LITERAL |-> 128..143,
     OPERATOR |-> 160..175, IDENTIFIER |-> 192..207, TYPE |-> 240..255]

\* The word a kind's type names begin with.
KindPrefix(kind) == IF kind = "FLOW_CONTROL" THEN "FLOW" ELSE kind

\* The kind name semantic_kind gives for v is the name of the band that holds
\* v, and a code semantic_type_name names has the kind its name begins with.
KindNamesTheBand(V) ==
    \A p \in Procs :
        /\ (Gave(p, {"semantic_kind"}) /\ call[p].arg \in V) =>
              \A band \in DOMAIN Bands :
                  call[p].arg \in Bands[band] => result[p].value = band
        /\ (Gave(p, {"semantic_type_name"}) /\ call[p].arg \in V
                /\ call[p].arg \in DOMAIN TypeNames) =>
              result[p].value[1] = KindPrefix(semantic_kind(call[p].arg))

\* C26: for every 8-bit code v, semantic_kind selects by (v >> 4) & 15 and
\* semantic_super_kind by (v >> 6) & 3, the kind name of v is the name of the
\* canonical band that holds v (FLOW_CONTROL throughout 64..95), and every code
\* semantic_type_name names has the kind its name begins with.
C26_KindNamesTheBand ==
    /\ KindNamesTheBand(Codes)
    /\ \A p \in Procs :
          /\ Gave(p, {"semantic_kind"}) =>
                LET k == (call[p].arg \div 16) % 16
                IN  result[p].value = IF k \in DOMAIN KindNames THEN KindNames[k] ELSE "UNKNOWN"
          /\ Gave(p, {"semantic_super_kind"}) =>
                result[p].value = SuperKindNames[(call[p].arg \div 64) % 4]

\* The same for the codes outside 80..95.
C26_KindNamesTheBandBelowEighty == KindNamesTheBand(Codes \ (80..95))

\* ------------------------------------------------------------- classifier tables
\* Most items (rules, token calls, string literals) of a grammar.js.
MaxItems == 2
\* Most DEF_TYPE lines of a hand-written .def file.
MaxLines == 2

\* The sequences over S of length at most n.
SeqsUpTo(S, n) == UNION {[1..k -> S] : k \in 0..n}

\* What a grammar.js is made of, as far as analyze_grammar_js reads it:
\* "name: $ =>" (rule), "token('text')" (token) and "'text'" (string).
GrammarItems ==
    {[kind |-> "rule", text |-> t] : t \in {"function_definition", "true", "_expr"}}
    \cup {[kind |-> "token", text |-> t] : t \in {"true", "+"}}
    \cup {[kind |-> "string", text |-> t] : t \in {"+", "("}}

\* The literals analyze_grammar_js keeps as strings.
Punctuation == {"(", "+"}

\* The texts of the items of the given kinds, in file order (re.findall).
RECURSIVE FindAll(_, _)
FindAll(content, kinds) ==
    IF content = <<>> THEN <<>>
    ELSE (IF Head(content).kind \in kinds THEN <<Head(content).text>> ELSE <<>>)
            \o FindAll(Tail(content), kinds)

\* analyze_grammar_js: the string pattern also matches the quoted literal
\* inside token('...').
analyze_grammar_js(content) ==
    [rules |-> FindAll(content, {"rule"}),
     tokens |-> FindAll(content, {"token"}),
     strings |-> SelectSeq(FindAll(content, {"token", "string"}),
                           LAMBDA s : s \in Punctuation)]

\* Python's order of the names (by code point).
NameRank ==
    ("(" :> 1) @@ ("+" :> 2) @@ ("_expr" :> 3) @@ ("function_definition" :> 4) @@
    ("true" :> 5)

RECURSIVE Sorted(_)
\* sorted(set(names)), given the set.
Sorted(S) ==
    IF S = {} THEN <<>>
    ELSE LET least == CHOOSE x \in S : \A y \in S : NameRank[x] <= NameRank[y]
         IN  <<least>> \o Sorted(S \ {least})

\* The elements of a sequence.
Elements(s) == {s[i] : i \in 1..Len(s)}

\* The keywords of classify_node_type that occur in a name.
KeywordsIn(name) ==
    IF name = "function_definition" THEN {"function", "definition"}
    ELSE IF name = "true" THEN {"true"}
    ELSE {}

\* classify_node_type(node_name): the normalized type, by the first test that
\* applies; the tests for keywords no name here contains are left out.
classify_node_type(name) ==
    IF "function" \in KeywordsIn(name)
    THEN (IF "definition" \in KeywordsIn(name) THEN "FUNCTION_DECLARATION" ELSE "FUNCTION_CALL")
    ELSE IF "true" \in KeywordsIn(name) THEN "BOOLEAN_LITERAL"
    ELSE "IDENTIFIER"

\* A DEF_TYPE line; quoted: the raw type is written in double quotes.
DefType(raw_type, quoted, semantic_type) ==
    [raw_type |-> raw_type, quoted |-> quoted, semantic_type |-> semantic_type]

\* The names generate_def_file skips: rule.startswith('_').
Private == {"_expr"}

\* determine_flags: the names flagged NodeFlags::IS_PUNCTUATION.
IsPunctuation(name) == name = "("

\* The lines generate_def_file writes for rules and for tokens: unquoted.
TypeEntries(names) ==
    [i \in 1..Len(names) |-> DefType(names[i], FALSE, classify_node_type(names[i]))]

\* The lines generate_def_file writes for string literals: quoted.
StringEntries(names) ==
    [i \in 1..Len(names) |->
        DefType(names[i], TRUE,
                IF IsPunctuation(names[i]) THEN "PUNCTUATION" ELSE "OPERATOR")]

\* generate_def_file: the rules that are not private, then the tokens, then
\* the strings, each list sorted and without repetitions of its own.
generate_def_file(grammar_data) ==
    TypeEntries(SelectSeq(Sorted(Elements(grammar_data.rules)),
                          LAMBDA r : r \notin Private))
    \o TypeEntries(Sorted(Elements(grammar_data.tokens)))
    \o StringEntries(Sorted(Elements(grammar_data.strings)))

\* The DEF_TYPE lines a hand-written or refined .def file is made of: two
\* quoted lines for one raw type, a quoted line with a code beyond a byte, and
\* an unquoted line.
DefLines ==
    {DefType("if", TRUE, "64"), DefType("if", TRUE, "68"),
     DefType("for", TRUE, "256"), DefType("true", FALSE, "136")}

\* The path of the language's table: {language_name}_types.def
DefPath == <<"python", "_types.def">>

\* A .def file with the given lines.
DefFile(lines) ==
    [state |-> "complete", rows |-> lines, writers |-> {}, torn |-> FALSE, by |-> 0]

\* parse_def_file: every line its DEF_TYPE pattern matches becomes a node type
\* of the document, in file order; the pattern wants the raw type in double
\* quotes, and a line it does not match is passed over.
parse_def_file(lines) ==
    LET matched == SelectSeq(lines, LAMBDA l : l.quoted)
    IN  [i \in 1..Len(matched) |->
            [raw_type |-> matched[i].raw_type, semantic_type |-> matched[i].semantic_type]]

\* python generate_def_file.py <language_name> <grammar_js_path>
GenerateDefFile(p) ==
    /\ pc[p] = "idle"
    /\ Ask(p, "generate_def_file", "python", <<>>)
    /\ store' = [store EXCEPT ![DefPath] = DefFile(generate_def_file(analyze_grammar_js(src)))]
    /\ Reply(p, Answer(Len(generate_def_file(analyze_grammar_js(src))), {}))
    /\ UNCHANGED <<src, buf, fresh, prior, faults>>

\* parse_def_file(filepath)
ParseDefFile(p) ==
    /\ pc[p] = "idle"
    /\ Ask(p, "parse_def_file", "python", DefPath)
    /\ Reply(p, Answer(parse_def_file(store[DefPath].rows), {}))
    /\ UNCHANGED <<src, store, buf, fresh, prior, faults>>

\* A grammar.js and a .def file as someone has written them, no call running.
InitTables ==
    /\ src \in SeqsUpTo(GrammarItems, MaxItems)
    /\ store \in {DefPath :> DefFile(lines) : lines \in SeqsUpTo(DefLines, MaxLines)}
    /\ pc = [p \in Procs |-> "idle"]
    /\ call = [p \in Procs |-> NoCall]
    /\ buf = [p \in Procs |-> EmptyBag]
    /\ fresh = [p \in Procs |-> EmptyBag]
    /\ result = [p \in Procs |-> NoResult]
    /\ prior = [p \in Procs |-> Absent]
    /\ faults = 0

NextTables ==
    \/ GenerateDefFile(1)
    \/ ParseDefFile(1)
    \/ Return(1)

SpecTables == InitTables /\ [][NextTables]_vars

\* ------------------------------------------------------------- classifier table properties
\* Two lines of the table give the same raw type.
DuplicateRawType(lines) ==
    \E i, j \in 1..Len(lines) : i # j /\ lines[i].raw_type = lines[j].raw_type

\* The number a code literal of the tables denotes.
CodeOf == ("64" :> 64) @@ ("68" :> 68) @@ ("136" :> 136) @@ ("256" :> 256)

\* A line of the table gives a code that is no 8-bit code.
OutOfRange(lines) ==
    \E i \in 1..Len(lines) :
        /\ lines[i].semantic_type \in DOMAIN CodeOf
        /\ CodeOf[lines[i].semantic_type] \notin Codes

\* C25: loading a table in which two entries give the same raw type, or an
\* entry gives a code outside 0..255, raises a configuration error and yields
\* no table; and the table generate_def_file writes has no raw type twice.
C25_MalformedTableIsRejected ==
    \A p \in Procs :
        /\ ( /\ Ended(p, {"parse_def_file"})
             /\ DuplicateRawType(store[DefPath].rows) \/ OutOfRange(store[DefPath].rows) ) =>
                result[p].status = "raised"
        /\ Ended(p, {"generate_def_file"}) => ~DuplicateRawType(store[DefPath].rows)

\* The load half of C25 alone.
C25_MalformedTableIsRejectedAtLoad ==
    \A p \in Procs :
        ( /\ Ended(p, {"parse_def_file"})
          /\ DuplicateRawType(store[DefPath].rows) \/ OutOfRange(store[DefPath].rows) ) =>
            result[p].status = "raised"

\* The generation half of C25 alone.
C25_GeneratedTableHasNoDuplicate ==
    \A p \in Procs :
        Ended(p, {"generate_def_file"}) => ~DuplicateRawType(store[DefPath].rows)

\* ------------------------------------------------------------- query scoping
\* The rows of d's own file whose parent_id is d's node_id.
OwnChildren(rows, d) ==
    {c \in rows : c.file_path = d.file_path /\ c.parent_id = d.node_id}

\* The rows of d's own file whose node_id is d's parent_id.
OwnParents(rows, d) ==
    {q \in rows : q.file_path = d.file_path /\ q.node_id = d.parent_id}

\* C27: what funcs, find, src and complex return for a function comes from
\* rows of the function's own file: the name from a child row of that file, the
\* match from a child row of that file, the line span from the function's row
\* or from its parent row in that file; never from a row of another file that
\* carries the same node ids.
C27_JoinsStayWithinTheFile ==
    \A p \in Procs :
        /\ Gave(p, {"funcs"}) =>
              LET rows == BagToSet(store[IndexPath(call[p].lang)].rows)
                  out == result[p].value
              IN  \A i \in 1..Len(out) :
                      \E d \in rows :
                          /\ d.file_path = call[p].arg
                          /\ d.start_line = out[i].start /\ d.end_line = out[i].end
                          /\ out[i].name \in {c.name : c \in OwnChildren(rows, d)}
        /\ Gave(p, {"find"}) =>
              LET rows == RowsFor(call[p].lang)
                  out == result[p].value
              IN  \A i \in 1..Len(out) :
                      \E d \in rows :
                          /\ d.file_path = out[i].file
                          /\ d.start_line = out[i].start /\ d.end_line = out[i].end
                          /\ \E c \in OwnChildren(rows, d) : NameLike(c.name, call[p].arg)
        /\ (Gave(p, {"src"}) /\ result[p].value # NotFound) =>
              LET rows == RowsFor("")
                  out == result[p].value
              IN  \E d \in rows :
                      /\ d.file_path = out.file
                      /\ \E c \in OwnChildren(rows, d) : NameLike(c.name, call[p].arg)
                      /\ \E s \in {d} \cup OwnParents(rows, d) :
                            out = Lines(d.file_path, s.start_line, s.end_line)
        /\ Gave(p, {"complex"}) =>
              LET rows == RowsFor("")
                  out == result[p].value
              IN  \A i \in 1..Len(out) :
                      \/ out[i].name = NullName
                      \/ \E d \in rows :
                            /\ d.file_path = out[i].file
                            /\ d.type = "function_declarator"
                            /\ out[i].name \in {c.name : c \in OwnChildren(rows, d)}

\* The rows read hold, in another file, a named row whose parent_id is the
\* node_id of a function of file f.
SharesNodeIds(rows, f) ==
    \E d, c \in rows :
        /\ d.file_path = f /\ d.type = "function_declarator"
        /\ c.file_path # f /\ c.parent_id = d.node_id /\ c.name # NullName
        /\ c.name \notin {x.name : x \in OwnChildren(rows, d)}

\* funcs has listed the functions of foo.py from an index in which a row of
\* another file has a declarator of foo.py's node_id as its parent_id.
C27_Witness ==
    \E p \in Procs :
        /\ Gave(p, {"funcs"})
        /\ call[p].arg = FooPy
        /\ Len(result[p].value) = 2
        /\ SharesNodeIds(BagToSet(store[IndexPath(call[p].lang)].rows), FooPy)

\* ------------------------------------------------------------- src determinism
\* C28: what src returns is fixed by the index rows, the source files and the
\* term: whichever of the rows its statement selects the engine hands back
\* first, the text returned is the same, also when several functions match.
C28_SrcIsDeterministic ==
    \A p \in Procs :
        Gave(p, {"src"}) =>
            \A r \in SrcRows(ReadParquet(Selected("")), call[p].arg) :
                result[p].value = Lines(r.file, r.start, r.end)

\* The same where a single function matches the term.
C28_SrcOfSingleMatchIsDeterministic ==
    \A p \in Procs :
        (Gave(p, {"src"}) /\ Cardinality(SrcMatches(RowsFor(""), call[p].arg)) = 1) =>
            \A r \in SrcRows(ReadParquet(Selected("")), call[p].arg) :
                result[p].value = Lines(r.file, r.start, r.end)

\* ------------------------------------------------------------- update keeps files
\* C29: no step of an update call takes a file out of the published index:
\* whatever the call returns or raises, the index stays readable and every
\* file_path it held before the step it holds after it, also the files the
\* pattern of the update does not match.
C29_UpdateNeverRemovesAFile ==
    [][\A p \in Procs :
          ( /\ call[p].op = "update_index" \/ call'[p].op = "update_index"
            /\ Readable(IndexPath(IF call[p].op = "update_index"
                                  THEN call[p].lang ELSE call'[p].lang)) ) =>
                LET path == IndexPath(IF call[p].op = "update_index"
                                      THEN call[p].lang ELSE call'[p].lang)
                IN  /\ store'[path].state = "complete"
                    /\ FilePaths(store[path].rows) \subseteq FilePaths(store'[path].rows)]_vars

\* An update has published a merged index that still holds a file its pattern
\* does not match, next to the files it parsed.
C29_Witness ==
    \E p \in Procs :
        /\ pc[p] = "done" /\ call[p].op = "update_index"
        /\ result[p].status = "updated"
        /\ \E f \in FilePaths(prior[p].rows) :
              /\ f \notin Matched(call[p].patterns[1])
              /\ f \in FilePaths(store[Published(p)].rows)
        /\ FilePaths(store[Published(p)].rows) # FilePaths(prior[p].rows)

\* ------------------------------------------------------------- funcs and its index
\* The index file named after the extension of a source path.
OwnIndex(file_path) == IndexPath(file_path[Len(file_path)])

\* C30: funcs(F) goes by the index file named after F's extension alone: it
\* raises the missing-index error exactly when that file does not exist,
\* whether or not another index holds rows of F, and then hands back the build
\* hint and no rows; what it returns otherwise are functions of F in that index.
C30_FuncsConsultsOwnIndexOnly ==
    \A p \in Procs :
        Ended(p, {"funcs"}) =>
            LET own == OwnIndex(call[p].arg) IN
            /\ (result[p].status = "raised" /\ result[p].error = "FileNotFoundError")
                  <=> store[own].state = "absent"
            /\ store[own].state = "absent" =>
                  /\ result[p].hint = BuildHint(call[p].arg[Len(call[p].arg)])
                  /\ result[p].value = <<>>
            /\ pc[p] = "done" =>
                  \A i \in 1..Len(result[p].value) :
                      \E d \in BagToSet(store[own].rows) :
                          /\ d.file_path = call[p].arg
                          /\ d.start_line = result[p].value[i].start

\* funcs(F) has raised the missing-index error while the index of another
\* language holds the functions of F.
C30_Witness ==
    \E p \in Procs :
        /\ Ended(p, {"funcs"})
        /\ result[p].error = "FileNotFoundError"
        /\ \E path \in IndexFiles \ {OwnIndex(call[p].arg)} :
              /\ Readable(path)
              /\ \E d \in BagToSet(store[path].rows) :
                    d.file_path = call[p].arg /\ d.type = "function_declarator"

=============================================================================
